---- MODULE Spec2Model ----
(***************************************************************************)
(* The Tetris rules engine of useTetris (hooks/useTetris.ts) and its drivers *)
(* (the keydown handler, the drop interval of App).                         *)
(*                                                                         *)
(* React state: gameState is the published snapshot.  Every callback is     *)
(* re-created on each render (useCallback on [gameState]) and the keydown   *)
(* listener and the interval are re-registered with it, so a command reads  *)
(* the snapshot current when it is issued.  Two places read an older        *)
(* snapshot, and are modelled as the code behaves:                          *)
(*   - hardDrop queues its own updater and then calls the moveDown of the   *)
(*     same render, which still reads the snapshot from before that updater;*)
(*   - the setTimeout callback of a line-clearing landing reads the         *)
(*     snapshot (score, nextPiece) and the collapsed board of the render    *)
(*     that scheduled it, 800 ms later.                                     *)
(* All timeouts have the same delay, so they fire in the order scheduled:   *)
(* timers is a FIFO queue.  Wall-clock time is not modelled: any number of  *)
(* commands may arrive between two timer firings.                           *)
(***************************************************************************)
EXTENDS Integers, Sequences, FiniteSets, TLC

(***************************************************************************)
(* Program constants (types/tetris.ts).                                     *)
(***************************************************************************)
BOARD_WIDTH == 10
BOARD_HEIGHT == 20

(***************************************************************************)
(* Bounds of the model.                                                     *)
(***************************************************************************)
\* getRandomTetromino draws among the first NumKinds kinds of KindOrder
NumKinds == 2
\* landings followed per behaviour, by cost: a landing that completes a row
\* costs 1, a landing that completes none costs PlainCost (the boards such
\* landings leave are many)
MaxSettles == 4
PlainCost == 2
\* steps followed in a session started on the empty board
MaxFresh == 3
\* phase-2 timeouts pending at once
MaxPending == 2
\* resets followed per behaviour
MaxResets == 1
\* full rows in an input board of clearLines
MaxFullRows == 3
\* side of the square shapes, other than the catalog's, given to rotatePiece
MaxShapeSize == 3
\* how far outside the board isValidMove is asked about a position
MaxMargin == 3
\* landings (weighted as in MaxSettles) followed in a session driven by the tick
TickSettles == 2

VARIABLES
    gameState,  \* the useState value: isPaused, board, currentPiece,
                \* currentPosition, nextPiece, score, isGameOver
    timers,     \* pending setTimeout callbacks, oldest first
    last,       \* history: the kind of step taken last: "move" (moveLeft,
                \* moveRight, moveDown, rotate), "hardDrop", "ignored" (one
                \* of these five, returning at its isGameOver/isPaused
                \* guard), "togglePause", "reset", "phaseTwo", or "init"
    budget,     \* what the bounds still let the model follow
    resets      \* history: resets so far (the generation of the session)

vars == <<gameState, timers, last, budget, resets>>

(***************************************************************************)
(* The shape catalog.                                                       *)
(***************************************************************************)
KindOrder == <<"I", "O", "T", "S", "Z", "J", "L">>

TETROMINOES ==
    [I |-> [type |-> "I", color |-> "cyan",
            shape |-> << <<0,0,0,0>>, <<1,1,1,1>>, <<0,0,0,0>>, <<0,0,0,0>> >>],
     O |-> [type |-> "O", color |-> "yellow",
            shape |-> << <<1,1>>, <<1,1>> >>],
     T |-> [type |-> "T", color |-> "purple",
            shape |-> << <<0,1,0>>, <<1,1,1>>, <<0,0,0>> >>],
     S |-> [type |-> "S", color |-> "green",
            shape |-> << <<0,1,1>>, <<1,1,0>>, <<0,0,0>> >>],
     Z |-> [type |-> "Z", color |-> "red",
            shape |-> << <<1,1,0>>, <<0,1,1>>, <<0,0,0>> >>],
     J |-> [type |-> "J", color |-> "blue",
            shape |-> << <<1,0,0>>, <<1,1,1>>, <<0,0,0>> >>],
     L |-> [type |-> "L", color |-> "orange",
            shape |-> << <<0,0,1>>, <<1,1,1>>, <<0,0,0>> >>]]

\* the values getRandomTetromino can return, within the bound
RandomTetrominoes ==
    {TETROMINOES[KindOrder[i]] : i \in 1..(IF NumKinds < 7 THEN NumKinds ELSE 7)}

(***************************************************************************)
(* Board and piece primitives.  Rows and columns of the code are 0-based;   *)
(* sequences are 1-based, so cell (row, col) is board[row + 1][col + 1].    *)
(***************************************************************************)
EmptyRow == [c \in 1..BOARD_WIDTH |-> 0]

createEmptyBoard == [r \in 1..BOARD_HEIGHT |-> EmptyRow]

SpawnPosition == [row |-> 0, col |-> (BOARD_WIDTH \div 2) - 1]

\* mutant: the bounds are tested for every cell of the shape matrix, filled
\* or not
isValidMoveBoundingBox(board, piece, position) ==
    \A row \in 1..Len(piece.shape) :
        \A col \in 1..Len(piece.shape[row]) :
            LET newRow == position.row + (row - 1)
                newCol == position.col + (col - 1)
            IN  /\ newRow >= 0
                /\ newRow < BOARD_HEIGHT
                /\ newCol >= 0
                /\ newCol < BOARD_WIDTH
                /\ piece.shape[row][col] # 0 => board[newRow + 1][newCol + 1] = 0

isValidMove(board, piece, position) ==
    \A row \in 1..Len(piece.shape) :
        \A col \in 1..Len(piece.shape[row]) :
            piece.shape[row][col] # 0 =>
                LET newRow == position.row + (row - 1)
                    newCol == position.col + (col - 1)
                IN  ~ (\/ newRow < 0
                       \/ newRow >= BOARD_HEIGHT
                       \/ newCol < 0
                       \/ newCol >= BOARD_WIDTH
                       \/ board[newRow + 1][newCol + 1] # 0)

\* mutant: the rows of the transpose are not reversed (a quarter turn the
\* other way after a flip: newShape[i][j] is shape[j][i])
rotatePieceTransposed(piece) ==
    [piece EXCEPT !.shape =
        [i \in 1..Len(piece.shape[1]) |->
            [j \in 1..Len(piece.shape) |-> piece.shape[j][i]]]]

\* newShape[i][j] is shape[n-1-j][i] (0-based): column i of the shape, reversed
rotatePiece(piece) ==
    LET n == Len(piece.shape)
    IN  [piece EXCEPT !.shape =
            [i \in 1..Len(piece.shape[1]) |->
                [j \in 1..n |-> piece.shape[n + 1 - j][i]]]]

mergePieceWithBoard(board, piece, position) ==
    [r \in 1..Len(board) |->
        [c \in 1..Len(board[r]) |->
            LET rowIndex == (r - 1) - position.row
                colIndex == (c - 1) - position.col
            IN  IF /\ rowIndex >= 0
                   /\ rowIndex < Len(piece.shape)
                   /\ colIndex >= 0
                   /\ colIndex < Len(piece.shape[rowIndex + 1])
                   /\ piece.shape[rowIndex + 1][colIndex + 1] # 0
                   /\ r - 1 < BOARD_HEIGHT
                   /\ c - 1 < BOARD_WIDTH
                THEN 1
                ELSE board[r][c]]]

IsFullRow(row) == \A c \in 1..Len(row) : row[c] = 1

NotFullRow(row) == ~ IsFullRow(row)

HasFullRow(board) == \E r \in 1..Len(board) : IsFullRow(board[r])

RECURSIVE FullRowIndices(_, _)
\* the 0-based indices of the full rows among the first n rows, ascending
FullRowIndices(board, n) ==
    IF n = 0 THEN <<>>
    ELSE IF IsFullRow(board[n])
         THEN Append(FullRowIndices(board, n - 1), n - 1)
         ELSE FullRowIndices(board, n - 1)

\* mutant: the cleared rows are not replaced by empty rows on top
clearLinesUnpadded(board) ==
    LET newBoard == SelectSeq(board, NotFullRow)
    IN  [clearedRows |-> FullRowIndices(board, Len(board)),
         newBoard |-> newBoard,
         linesCleared |-> BOARD_HEIGHT - Len(newBoard)]

\* mutant: the empty rows are added below the kept rows
clearLinesPaddedBelow(board) ==
    LET newBoard == SelectSeq(board, NotFullRow)
        linesCleared == BOARD_HEIGHT - Len(newBoard)
    IN  [clearedRows |-> FullRowIndices(board, Len(board)),
         newBoard |-> newBoard \o [i \in 1..linesCleared |-> EmptyRow],
         linesCleared |-> linesCleared]

clearLines(board) ==
    LET clearedRows == FullRowIndices(board, Len(board))
        newBoard == SelectSeq(board, NotFullRow)
        linesCleared == BOARD_HEIGHT - Len(newBoard)
        emptyLines == [i \in 1..linesCleared |-> EmptyRow]
    IN  [clearedRows |-> clearedRows,
         newBoard |-> emptyLines \o newBoard,
         linesCleared |-> linesCleared]

(***************************************************************************)
(* The engine: useTetris.                                                   *)
(***************************************************************************)
\* mutant: the guard forgets isGameOver
BlockedWhenPaused(gs) == gs.isPaused

\* mutant: the guard forgets isPaused
BlockedWhenOver(gs) == gs.isGameOver

\* the guard "if (gameState.isGameOver || gameState.isPaused) return;"
Blocked(gs) == gs.isGameOver \/ gs.isPaused

Below(position) == [position EXCEPT !.row = @ + 1]

\* moveDown's "Piece has landed" branch is taken
Landed(gs) ==
    /\ ~ Blocked(gs)
    /\ ~ isValidMove(gs.board, gs.currentPiece, Below(gs.currentPosition))

\* mutant: the piece is merged at the rejected position, one row lower
MergedBoardBelow(gs) ==
    mergePieceWithBoard(gs.board, gs.currentPiece, Below(gs.currentPosition))

MergedBoard(gs) ==
    mergePieceWithBoard(gs.board, gs.currentPiece, gs.currentPosition)

\* the landing completes at least one row: the two-phase branch
Clears(gs) ==
    Landed(gs) /\ Len(clearLines(MergedBoard(gs)).clearedRows) > 0

\* mutant: game over is tested on the board before the landing
CommitUpdateOldBoard(prev, clearedBoard, nextPiece, newScore, rnd) ==
    [prev EXCEPT !.board = clearedBoard,
                 !.currentPiece = nextPiece,
                 !.currentPosition = SpawnPosition,
                 !.nextPiece = rnd,
                 !.score = newScore,
                 !.isGameOver = ~ isValidMove(prev.board, nextPiece, SpawnPosition)]

\* the updater both commits pass to setGameState; getRandomTetromino is rnd
CommitUpdate(prev, clearedBoard, nextPiece, newScore, rnd) ==
    LET nextPosition == SpawnPosition
        isGameOver == ~ isValidMove(clearedBoard, nextPiece, nextPosition)
    IN  [prev EXCEPT !.board = clearedBoard,
                     !.currentPiece = nextPiece,
                     !.currentPosition = nextPosition,
                     !.nextPiece = rnd,
                     !.score = newScore,
                     !.isGameOver = isGameOver]

\* mutant: a piece that cannot move down hovers: nothing is merged or committed
moveDownHovers(gs, prev, rnd) ==
    IF Blocked(gs) THEN prev
    ELSE LET newPosition == Below(gs.currentPosition)
         IN  IF isValidMove(gs.board, gs.currentPiece, newPosition)
             THEN [prev EXCEPT !.currentPosition = newPosition]
             ELSE prev

\* mutant: phase 1 publishes the collapsed board instead of the merged one
moveDownCollapsesAtOnce(gs, prev, rnd) ==
    IF Blocked(gs) THEN prev
    ELSE LET newPosition == Below(gs.currentPosition)
         IN  IF isValidMove(gs.board, gs.currentPiece, newPosition)
             THEN [prev EXCEPT !.currentPosition = newPosition]
             ELSE LET cl == clearLines(MergedBoard(gs))
                  IN  IF Len(cl.clearedRows) > 0
                      THEN [prev EXCEPT !.board = cl.newBoard]
                      ELSE CommitUpdate(prev, cl.newBoard, gs.nextPiece,
                                        gs.score + (cl.linesCleared * 100), rnd)

\* moveDown called from a render whose snapshot is gs: the updater it queues,
\* applied to prev (the state the updater receives)
moveDownUpdate(gs, prev, rnd) ==
    IF Blocked(gs) THEN prev
    ELSE LET newPosition == Below(gs.currentPosition)
         IN  IF isValidMove(gs.board, gs.currentPiece, newPosition)
             THEN [prev EXCEPT !.currentPosition = newPosition]
             ELSE LET newBoard == MergedBoard(gs)
                      cl == clearLines(newBoard)
                  IN  IF Len(cl.clearedRows) > 0
                      THEN [prev EXCEPT !.board = newBoard]
                      ELSE CommitUpdate(prev, cl.newBoard, gs.nextPiece,
                                        gs.score + (cl.linesCleared * 100), rnd)

\* mutant: phase 1 publishes the merged board but schedules no timeout
moveDownForgetsTimeout(gs, gen) == <<>>

\* the timeout moveDown schedules: what the callback's closure holds
\* (gen is history: the session that scheduled it)
moveDownTimers(gs, gen) ==
    IF Clears(gs)
    THEN LET cl == clearLines(MergedBoard(gs))
         IN  << [clearedBoard |-> cl.newBoard,
                 linesCleared |-> cl.linesCleared,
                 score |-> gs.score,
                 nextPiece |-> gs.nextPiece,
                 gen |-> gen] >>
    ELSE <<>>

\* getRandomTetromino is evaluated only by a commit's updater
Draws(gs) ==
    IF Landed(gs) /\ ~ Clears(gs) THEN RandomTetrominoes ELSE {gs.nextPiece}

\* the steps the bounds let the model follow
Followed == budget.fresh => budget.steps > 0

WithinBounds(gs) ==
    /\ Followed
    /\ Clears(gs) => budget.landings >= 1 /\ Len(timers) < MaxPending
    /\ Landed(gs) /\ ~ Clears(gs) => budget.landings >= PlainCost

Step(b) == IF b.fresh THEN [b EXCEPT !.steps = @ - 1] ELSE b

Spent(gs) ==
    Step(IF Clears(gs) THEN [budget EXCEPT !.landings = @ - 1]
         ELSE IF Landed(gs) THEN [budget EXCEPT !.landings = @ - PlainCost]
         ELSE budget)

LastMove(gs) == IF Blocked(gs) THEN "ignored" ELSE "move"

\* ArrowDown, or a tick of App's interval (which has moveDown's own guard)
MoveDown ==
    /\ WithinBounds(gameState)
    /\ \E rnd \in Draws(gameState) :
            gameState' = moveDownUpdate(gameState, gameState, rnd)
    /\ timers' = timers \o moveDownTimers(gameState, resets)
    /\ budget' = Spent(gameState)
    /\ last' = LastMove(gameState)
    /\ UNCHANGED resets

\* mutant: the candidate position is committed without isValidMove
moveLeftUnchecked(gs) ==
    IF gs.isGameOver \/ gs.isPaused THEN gs
    ELSE [gs EXCEPT !.currentPosition.col = @ - 1]

\* mutant: isValidMove is asked about the current position, not the candidate
moveLeftChecksCurrent(gs) ==
    IF Blocked(gs) THEN gs
    ELSE IF isValidMove(gs.board, gs.currentPiece, gs.currentPosition)
         THEN [gs EXCEPT !.currentPosition.col = @ - 1]
         ELSE gs

moveLeftUpdate(gs) ==
    IF Blocked(gs) THEN gs
    ELSE LET newPosition == [gs.currentPosition EXCEPT !.col = @ - 1]
         IN  IF isValidMove(gs.board, gs.currentPiece, newPosition)
             THEN [gs EXCEPT !.currentPosition = newPosition]
             ELSE gs

MoveLeft ==
    /\ Followed
    /\ gameState' = moveLeftUpdate(gameState)
    /\ last' = LastMove(gameState)
    /\ budget' = Step(budget)
    /\ UNCHANGED <<timers, resets>>

moveRightUpdate(gs) ==
    IF Blocked(gs) THEN gs
    ELSE LET newPosition == [gs.currentPosition EXCEPT !.col = @ + 1]
         IN  IF isValidMove(gs.board, gs.currentPiece, newPosition)
             THEN [gs EXCEPT !.currentPosition = newPosition]
             ELSE gs

MoveRight ==
    /\ Followed
    /\ gameState' = moveRightUpdate(gameState)
    /\ last' = LastMove(gameState)
    /\ budget' = Step(budget)
    /\ UNCHANGED <<timers, resets>>

\* mutant: a rejected rotation is tried again one column to the right
rotateWallKick(gs) ==
    IF Blocked(gs) THEN gs
    ELSE LET rotatedPiece == rotatePiece(gs.currentPiece)
             kicked == [gs.currentPosition EXCEPT !.col = @ + 1]
         IN  IF isValidMove(gs.board, rotatedPiece, gs.currentPosition)
             THEN [gs EXCEPT !.currentPiece = rotatedPiece]
             ELSE IF isValidMove(gs.board, rotatedPiece, kicked)
                  THEN [gs EXCEPT !.currentPiece = rotatedPiece,
                                  !.currentPosition = kicked]
                  ELSE gs

rotateUpdate(gs) ==
    IF Blocked(gs) THEN gs
    ELSE LET rotatedPiece == rotatePiece(gs.currentPiece)
         IN  IF isValidMove(gs.board, rotatedPiece, gs.currentPosition)
             THEN [gs EXCEPT !.currentPiece = rotatedPiece]
             ELSE gs

Rotate ==
    /\ Followed
    /\ gameState' = rotateUpdate(gameState)
    /\ last' = LastMove(gameState)
    /\ budget' = Step(budget)
    /\ UNCHANGED <<timers, resets>>

RECURSIVE DropPosition(_, _, _)
\* hardDrop's while loop
DropPosition(board, piece, newPosition) ==
    IF isValidMove(board, piece, Below(newPosition))
    THEN DropPosition(board, piece, Below(newPosition))
    ELSE newPosition

\* hardDrop queues prev => {...prev, currentPosition: newPosition} and then
\* calls moveDown(), whose closure still holds the snapshot gs
hardDropUpdate(gs, rnd) ==
    IF Blocked(gs) THEN gs
    ELSE LET newPosition ==
                 DropPosition(gs.board, gs.currentPiece, gs.currentPosition)
             dropped == [gs EXCEPT !.currentPosition = newPosition]
         IN  moveDownUpdate(gs, dropped, rnd)

HardDrop ==
    /\ WithinBounds(gameState)
    /\ \E rnd \in Draws(gameState) :
            gameState' = hardDropUpdate(gameState, rnd)
    /\ timers' = timers \o moveDownTimers(gameState, resets)
    /\ budget' = Spent(gameState)
    /\ last' = IF Blocked(gameState) THEN "ignored" ELSE "hardDrop"
    /\ UNCHANGED resets

\* the Enter key
togglePauseUpdate(prev) == [prev EXCEPT !.isPaused = ~ prev.isPaused]

TogglePause ==
    /\ Followed
    /\ gameState' = togglePauseUpdate(gameState)
    /\ last' = "togglePause"
    /\ budget' = Step(budget)
    /\ UNCHANGED <<timers, resets>>

InitialState(board, current, next) ==
    [isPaused |-> FALSE,
     board |-> board,
     currentPiece |-> current,
     currentPosition |-> SpawnPosition,
     nextPiece |-> next,
     score |-> 0,
     isGameOver |-> FALSE]

\* a session on the empty board is followed for MaxFresh steps, short of landing
FreshBudget == [fresh |-> TRUE, steps |-> MaxFresh, landings |-> 0]

PileBudget == [fresh |-> FALSE, steps |-> 0, landings |-> MaxSettles]

\* mutant: reset spreads the previous state and forgets to clear isPaused
ResetGameKeepsPause ==
    /\ resets < MaxResets
    /\ \E current \in RandomTetrominoes, next \in RandomTetrominoes :
            gameState' = [InitialState(createEmptyBoard, current, next)
                            EXCEPT !.isPaused = gameState.isPaused]
    /\ resets' = resets + 1
    /\ budget' = FreshBudget
    /\ last' = "reset"
    /\ UNCHANGED timers

\* resetGame replaces the state; it clears no timeout
ResetGame ==
    /\ resets < MaxResets
    /\ \E current \in RandomTetrominoes, next \in RandomTetrominoes :
            gameState' = InitialState(createEmptyBoard, current, next)
    /\ resets' = resets + 1
    /\ budget' = FreshBudget
    /\ last' = "reset"
    /\ UNCHANGED timers

\* mutant: the commit adds 100 per landing, not per cleared row
phaseTwoFlatReward(t, prev, rnd) ==
    CommitUpdate(prev, t.clearedBoard, t.nextPiece, t.score + 100, rnd)

\* the oldest pending setTimeout callback runs
phaseTwoUpdate(t, prev, rnd) ==
    CommitUpdate(prev, t.clearedBoard, t.nextPiece,
                 t.score + (t.linesCleared * 100), rnd)

PhaseTwo ==
    /\ Followed
    /\ timers # <<>>
    /\ \E rnd \in RandomTetrominoes :
            gameState' = phaseTwoUpdate(Head(timers), gameState, rnd)
    /\ timers' = Tail(timers)
    /\ last' = "phaseTwo"
    /\ budget' = Step(budget)
    /\ UNCHANGED resets

(***************************************************************************)
(* A mid-game session the program reaches from construction with score 0:   *)
(*     rows 0..1   empty                                                    *)
(*     rows 2..3   columns 0..5 filled  (a notch four wide on the right)    *)
(*     rows 4..5   columns 0..8 filled  (a well in column 9)                *)
(*     rows 6..19  columns 1..9 filled  (column 0 empty but covered)        *)
(* It is built by 39 pieces, each rotated at spawn, moved to its column and *)
(* dropped by moveDown() (kind, rotations, column of the shape's origin):   *)
(*   seven times (I,0,1) (I,0,5) for the rows 19..6 of columns 1..8, with   *)
(*   (I,1,7) for column 9 after the 2nd, 10th and 18th of them, then        *)
(*   (S,1,7) (I,0,1) (O,0,5) (J,1,6) (I,0,0) (I,1,2) (I,0,0) (L,1,4)        *)
(*   (I,0,0) (I,0,0).                                                       *)
(* No row is full at any point of that game and rows 0..1 stay empty, so    *)
(* every piece spawns validly and score stays 0.                            *)
(***************************************************************************)
Pile ==
    [r \in 1..BOARD_HEIGHT |->
        [c \in 1..BOARD_WIDTH |->
            IF \/ r - 1 >= 6 /\ c - 1 >= 1
               \/ r - 1 >= 4 /\ r - 1 <= 5 /\ c - 1 <= 8
               \/ r - 1 >= 2 /\ r - 1 <= 3 /\ c - 1 <= 5
            THEN 1 ELSE 0]]

Init ==
    /\ \E current \in RandomTetrominoes, next \in RandomTetrominoes :
            \/ /\ gameState = InitialState(createEmptyBoard, current, next)
               /\ budget = FreshBudget
            \/ /\ gameState = InitialState(Pile, current, next)
               /\ budget = PileBudget
    /\ timers = <<>>
    /\ last = "init"
    /\ resets = 0

Next ==
    \/ MoveLeft
    \/ MoveRight
    \/ MoveDown
    \/ Rotate
    \/ HardDrop
    \/ TogglePause
    \/ ResetGame
    \/ PhaseTwo

Spec == Init /\ [][Next]_vars

(***************************************************************************)
(* The commands on one piece: each of the seven kinds at spawn on the empty *)
(* board and on Pile, moved, rotated and stepped down; landings are not     *)
(* followed here.                                                           *)
(***************************************************************************)
MovesBudget == [fresh |-> FALSE, steps |-> 0, landings |-> 0]

InitMoves ==
    /\ \E k \in 1..7, board \in {createEmptyBoard, Pile} :
            gameState = InitialState(board, TETROMINOES[KindOrder[k]],
                                     TETROMINOES.O)
    /\ timers = <<>>
    /\ last = "init"
    /\ budget = MovesBudget
    /\ resets = 0

NextMoves ==
    \/ MoveLeft
    \/ MoveRight
    \/ MoveDown
    \/ Rotate
    \/ HardDrop
    \/ TogglePause

SpecMoves == InitMoves /\ [][NextMoves]_vars

(***************************************************************************)
(* clearLines on its own: a session placed on each board of a family of     *)
(* 20x10 binary boards, and the one step that replaces the board by         *)
(* clearLines(board).newBoard.                                              *)
(***************************************************************************)
\* row (0-based) r of the family when it is not full: the binary digits of r
\* in columns 0..4, so the rows differ from each other, row 0 is empty and
\* no row is full
MarkedRow(r) ==
    [c \in 1..BOARD_WIDTH |->
        IF c = 1 THEN r % 2
        ELSE IF c = 2 THEN (r \div 2) % 2
        ELSE IF c = 3 THEN (r \div 4) % 2
        ELSE IF c = 4 THEN (r \div 8) % 2
        ELSE IF c = 5 THEN (r \div 16) % 2
        ELSE 0]

FullRow == [c \in 1..BOARD_WIDTH |-> 1]

\* the board whose full rows are the rows (0-based) of the set full
BoardWithFullRows(full) ==
    [r \in 1..BOARD_HEIGHT |->
        IF (r - 1) \in full THEN FullRow ELSE MarkedRow(r - 1)]

InputBoards ==
    {BoardWithFullRows(full) :
        full \in {f \in SUBSET (0..(BOARD_HEIGHT - 1)) :
                     Cardinality(f) <= MaxFullRows}}

InitClearLines ==
    /\ \E board \in InputBoards :
            gameState = InitialState(board, TETROMINOES.I, TETROMINOES.O)
    /\ timers = <<>>
    /\ last = "init"
    /\ budget = PileBudget
    /\ resets = 0

ApplyClearLines ==
    /\ HasFullRow(gameState.board)
    /\ gameState' =
            [gameState EXCEPT !.board = clearLines(gameState.board).newBoard]
    /\ UNCHANGED <<timers, last, budget, resets>>

SpecClearLines == InitClearLines /\ [][ApplyClearLines]_vars

(***************************************************************************)
(* rotatePiece on its own: a session whose current piece is a catalog piece *)
(* or carries any square binary shape up to MaxShapeSize, and the one step  *)
(* that replaces the piece by rotatePiece(piece).                           *)
(***************************************************************************)
SquareShapes ==
    UNION {[1..n -> [1..n -> {0, 1}]] : n \in 1..MaxShapeSize}

InputPieces ==
    {TETROMINOES[KindOrder[k]] : k \in 1..7}
        \cup {[TETROMINOES.T EXCEPT !.shape = shape] : shape \in SquareShapes}

InitRotate ==
    /\ \E piece \in InputPieces :
            gameState = InitialState(createEmptyBoard, piece, TETROMINOES.O)
    /\ timers = <<>>
    /\ last = "init"
    /\ budget = FreshBudget
    /\ resets = 0

ApplyRotate ==
    /\ gameState' =
            [gameState EXCEPT !.currentPiece = rotatePiece(gameState.currentPiece)]
    /\ UNCHANGED <<timers, last, budget, resets>>

SpecRotate == InitRotate /\ [][ApplyRotate]_vars

(***************************************************************************)
(* isValidMove on its own: each catalog piece, in each rotation, on the     *)
(* empty board and on Pile, and the one step that commits any candidate     *)
(* position isValidMove accepts (as moveLeft, moveRight and moveDown do     *)
(* with theirs).                                                            *)
(***************************************************************************)
CandidatePositions ==
    [row : (0 - MaxMargin)..(BOARD_HEIGHT - 1 + MaxMargin),
     col : (0 - MaxMargin)..(BOARD_WIDTH - 1 + MaxMargin)]

InitValidMove ==
    /\ \E k \in 1..7, board \in {createEmptyBoard, Pile} :
            gameState = InitialState(board, TETROMINOES[KindOrder[k]],
                                     TETROMINOES.O)
    /\ timers = <<>>
    /\ last = "init"
    /\ budget = MovesBudget
    /\ resets = 0

PlaceIfValid ==
    /\ \E position \in CandidatePositions :
            /\ isValidMove(gameState.board, gameState.currentPiece, position)
            /\ gameState' = [gameState EXCEPT !.currentPosition = position]
    /\ UNCHANGED <<timers, last, budget, resets>>

RotateIfValid ==
    /\ gameState' = rotateUpdate(gameState)
    /\ UNCHANGED <<timers, last, budget, resets>>

NextValidMove == PlaceIfValid \/ RotateIfValid

SpecValidMove == InitValidMove /\ [][NextValidMove]_vars

(***************************************************************************)
(* The session driven by App's interval: the tick calls moveDown() while    *)
(* the player issues moveLeft, moveRight and rotate, and pending timeouts   *)
(* fire.  The tick and the timeouts are weakly fair: a timeout runs once    *)
(* its 800 ms have passed, and the interval, which the effect creates anew  *)
(* whenever isGameOver, isPaused or moveDown changes, runs its callback     *)
(* once the session has been left unchanged for 1000 ms.  Sessions start    *)
(* on Pile and are followed for the landings TickBudget pays for.           *)
(***************************************************************************)
TickBudget == [fresh |-> FALSE, steps |-> 0, landings |-> TickSettles]

InitTick ==
    /\ \E current \in RandomTetrominoes, next \in RandomTetrominoes :
            gameState = InitialState(Pile, current, next)
    /\ timers = <<>>
    /\ last = "init"
    /\ budget = TickBudget
    /\ resets = 0

NextTick ==
    \/ MoveLeft
    \/ MoveRight
    \/ Rotate
    \/ MoveDown
    \/ PhaseTwo

SpecTick ==
    /\ InitTick
    /\ [][NextTick]_vars
    /\ WF_vars(MoveDown)
    /\ WF_vars(PhaseTwo)

(***************************************************************************)
(* Claims.                                                                  *)
(***************************************************************************)
Move == MoveLeft \/ MoveRight \/ MoveDown \/ Rotate \/ HardDrop

\* the cells (row, col), 0-based, the current piece fills on the board
PieceCells(gs) ==
    {<<gs.currentPosition.row + (r - 1), gs.currentPosition.col + (c - 1)>> :
        <<r, c>> \in {rc \in (1..Len(gs.currentPiece.shape))
                             \X (1..Len(gs.currentPiece.shape)) :
                         gs.currentPiece.shape[rc[1]][rc[2]] # 0}}

PieceInBounds(gs) ==
    \A cell \in PieceCells(gs) :
        /\ cell[1] >= 0 /\ cell[1] < BOARD_HEIGHT
        /\ cell[2] >= 0 /\ cell[2] < BOARD_WIDTH

PieceOnEmptyCells(gs) ==
    \A cell \in PieceCells(gs) : gs.board[cell[1] + 1][cell[2] + 1] = 0

Dropped(gs) ==
    [gs EXCEPT !.currentPosition =
        DropPosition(gs.board, gs.currentPiece, gs.currentPosition)]

\* C2: hardDrop() from a session neither paused nor over leaves the session
\* as repeated moveDown() until the landing does: the piece merged at the
\* lowest row of its column and one settle performed.
C2_HardDropSettles ==
    [][(HardDrop /\ ~ Blocked(gameState)) =>
        /\ \E rnd \in RandomTetrominoes :
              gameState' = moveDownUpdate(Dropped(gameState),
                                          Dropped(gameState), rnd)
        /\ timers' = timers \o moveDownTimers(Dropped(gameState), resets)]_vars

\* C3: a phase-2 callback scheduled before a reset leaves the reset session
\* as it is when it fires.
C3_ResetDiscardsPending ==
    [][(PhaseTwo /\ Head(timers).gen < resets) =>
        gameState' = gameState]_vars

\* C4: once isGameOver is true it stays true on every step but reset().
C4_GameOverUntilReset ==
    [][(gameState.isGameOver /\ resets' = resets) =>
        gameState'.isGameOver]_vars

\* C5: when isGameOver is true, moveLeft, moveRight, moveDown, rotate and
\* hardDrop leave the session unchanged and schedule no deferred commit.
C5_OverIgnoresMoves ==
    [][(gameState.isGameOver /\ Move) => UNCHANGED <<gameState, timers>>]_vars

\* a move command was issued, and ignored, in a game-over session
C5_Witness ==
    gameState.isGameOver /\ ~ gameState.isPaused /\ last = "ignored"

\* C6: when isPaused is true, moveLeft, moveRight, moveDown, rotate and
\* hardDrop leave the session unchanged and schedule no deferred commit.
C6_PausedIgnoresMoves ==
    [][(gameState.isPaused /\ Move) => UNCHANGED <<gameState, timers>>]_vars

\* a move command was issued, and ignored, in a paused session that is not over
C6_Witness ==
    gameState.isPaused /\ ~ gameState.isGameOver /\ last = "ignored"

\* C7: the pause-toggle issued in a game-over session changes nothing.
C7_OverIgnoresToggle ==
    [][(gameState.isGameOver /\ TogglePause) => gameState' = gameState]_vars

\* C8: on a step that is not reset(), score does not decrease.
C8_ScoreNeverDecreases ==
    [][resets' = resets => gameState'.score >= gameState.score]_vars

\* C9: a commit changes score by exactly 100 times the rows its settle
\* cleared: the deferred commit by 100 per row of its landing, a move (whose
\* only commit is the immediate one of a landing that cleared no row) by 0.
C9_RewardPerSettle ==
    [][/\ PhaseTwo =>
            gameState'.score =
                gameState.score + (100 * Head(timers).linesCleared)
       /\ Move => gameState'.score = gameState.score]_vars

SettleCommit ==
    \/ Landed(gameState) /\ ~ Clears(gameState) /\ (MoveDown \/ HardDrop)
    \/ last' = "phaseTwo" /\ PhaseTwo

\* C11: isGameOver becomes true only by a settle commit; a settle commit sets
\* it to true exactly when the piece that becomes current (the previous
\* nextPiece) is not valid at the spawn position on the post-settle board;
\* and whenever isGameOver is true, currentPosition is the spawn position and
\* currentPiece is not valid there on board.  (The second and third conjuncts
\* are written as contrapositives: a step that ends otherwise is no commit.)
C11_GameOverBySettle ==
    [][/\ (~ gameState.isGameOver /\ gameState'.isGameOver) => SettleCommit
       /\ (gameState'.isGameOver #
                ~ isValidMove(gameState'.board, gameState'.currentPiece,
                              SpawnPosition)) => ~ SettleCommit
       /\ (gameState'.currentPiece # gameState.nextPiece) =>
            ~ (Landed(gameState) /\ ~ Clears(gameState) /\ MoveDown)
       /\ gameState'.isGameOver =>
            /\ gameState'.currentPosition = SpawnPosition
            /\ ~ isValidMove(gameState'.board, gameState'.currentPiece,
                             gameState'.currentPosition)]_vars

\* a landing that completed no row has just ended the game
C11_Witness ==
    gameState.isGameOver /\ last = "move" /\ timers = <<>>

FilledRows(board) ==
    {r \in 1..20 : \A c \in 1..10 : board[r][c] = 1}

FillsFirstColumn(piece) ==
    \E r \in 1..Len(piece.shape) : piece.shape[r][1] # 0

InWindow ==
    timers # <<>> /\ HasFullRow(gameState.board)

\* C16: a moveLeft, moveRight, moveDown, rotate or hardDrop issued between
\* phase 1 and phase 2 of a landing changes nothing and schedules no further
\* commit.
C16_OneCommitPerLanding ==
    [][(InWindow /\ Move) => UNCHANGED <<gameState, timers>>]_vars

\* board with the cells of the current piece set to 1, cell by cell
BoardWithPiece(gs) ==
    [r \in 1..20 |->
        [c \in 1..10 |->
            IF <<r - 1, c - 1>> \in PieceCells(gs) THEN 1 ELSE gs.board[r][c]]]

\* C17: when moveDown() finds row+1 invalid and merging the piece completes
\* at least one row, the state published at once has board equal to the
\* merged board, the full rows still present, and currentPiece,
\* currentPosition, nextPiece, score, isGameOver and isPaused unchanged.
C17_PhaseOne ==
    [][(Clears(gameState) /\ MoveDown) =>
        /\ gameState'.board = BoardWithPiece(gameState)
        /\ \E r \in 1..20 : \A c \in 1..10 : gameState'.board[r][c] = 1
        /\ gameState'.currentPiece = gameState.currentPiece
        /\ gameState'.currentPosition = gameState.currentPosition
        /\ gameState'.nextPiece = gameState.nextPiece
        /\ gameState'.score = gameState.score
        /\ gameState'.isGameOver = gameState.isGameOver
        /\ gameState'.isPaused = gameState.isPaused]_vars

\* phase 1 of a landing has just been published, nothing else pending: the
\* piece lies on its own cells in the merged board
C17_Witness ==
    /\ Len(timers) = 1
    /\ last = "move"
    /\ HasFullRow(gameState.board)
    /\ ~ PieceOnEmptyCells(gameState)
    /\ gameState.score = Head(timers).score

Running == ~ gameState.isGameOver /\ ~ gameState.isPaused

\* what moveLeft (d = -1) or moveRight (d = 1) may do to the session
MoveOutcome(d) ==
    LET candidate == [gameState.currentPosition EXCEPT !.col = @ + d]
    IN  /\ timers' = timers
        /\ IF isValidMove(gameState.board, gameState.currentPiece, candidate)
           THEN /\ gameState' =
                      [gameState EXCEPT !.currentPosition.col =
                                            gameState'.currentPosition.col]
                /\ Running => gameState'.currentPosition = candidate
           ELSE gameState' = gameState

\* what rotate may do to the session
RotateOutcome ==
    LET rotated == rotatePiece(gameState.currentPiece)
    IN  /\ timers' = timers
        /\ gameState'.currentPosition = gameState.currentPosition
        /\ IF isValidMove(gameState.board, rotated, gameState.currentPosition)
           THEN /\ gameState' =
                      [gameState EXCEPT !.currentPiece.shape =
                                            gameState'.currentPiece.shape]
                /\ Running => gameState'.currentPiece.shape = rotated.shape
           ELSE gameState' = gameState

FilledCellsFit(board, piece, position) ==
    \A r \in 0..(Len(piece.shape) - 1), c \in 0..(Len(piece.shape) - 1) :
        piece.shape[r + 1][c + 1] = 1 =>
            /\ position.row + r >= 0 /\ position.row + r < 20
            /\ position.col + c >= 0 /\ position.col + c < 10
            /\ board[position.row + r + 1][position.col + c + 1] = 0

C22_PausedFreezes ==
    [][(gameState.isPaused /\ resets' = resets) =>
        /\ gameState'.board = gameState.board
        /\ gameState'.currentPiece = gameState.currentPiece
        /\ gameState'.currentPosition = gameState.currentPosition
        /\ gameState'.score = gameState.score]_vars


Settled ==
    /\ timers = <<>>
    /\ gameState.currentPosition = SpawnPosition
    /\ gameState.currentPiece = TETROMINOES[gameState.currentPiece.type]

====
